---- MODULE Spec2Model ----
(***************************************************************************)
(* Chisquared and Erlang, the two wrappers this repository builds on its    *)
(* Gamma distribution (src/distribution/chisquared.rs, erlang.rs).          *)
(*                                                                          *)
(* Numbers.  The wrappers convert between u64 and f64 and take reciprocals, *)
(* so f64 values are modelled bit-exactly: a finite non-zero f64 is         *)
(* m * 2^e with a 53-bit significand m, every arithmetic operation computes *)
(* the exact rational result and rounds it to nearest, ties to even.        *)
(* Significands do not fit TLC's integers, so naturals are kept as          *)
(* little-endian sequences of 15-bit limbs ("Big").  Exponents stay far     *)
(* from the f64 exponent range for the inputs of this model, so subnormals  *)
(* and overflow to infinity do not occur; -0.0 is not distinguished from    *)
(* 0.0.                                                                     *)
(***************************************************************************)
EXTENDS Integers, Sequences, FiniteSets, TLC

\* ------------------------------------------------------------------ naturals
\* limbs are 15 bits wide, so that a product of two limbs fits TLC's integers
Base == 2^15

RECURSIVE NatBitLen(_)
NatBitLen(n) == IF n = 0 THEN 0 ELSE 1 + NatBitLen(n \div 2)

LimbBits == NatBitLen(Base) - 1

RECURSIVE BigNorm(_)
BigNorm(a) ==
    IF a = <<>> THEN <<>>
    ELSE IF a[Len(a)] = 0 THEN BigNorm(SubSeq(a, 1, Len(a) - 1)) ELSE a

RECURSIVE BigFromNat(_)
BigFromNat(n) == IF n = 0 THEN <<>> ELSE <<n % Base>> \o BigFromNat(n \div Base)

BigIsZero(a) == a = <<>>

RECURSIVE BigCmpFrom(_, _, _)
BigCmpFrom(a, b, i) ==
    IF i = 0 THEN 0
    ELSE IF a[i] < b[i] THEN -1
    ELSE IF a[i] > b[i] THEN 1
    ELSE BigCmpFrom(a, b, i - 1)

\* -1, 0 or 1 as a < b, a = b, a > b
BigCmp(a, b) ==
    IF Len(a) < Len(b) THEN -1
    ELSE IF Len(a) > Len(b) THEN 1
    ELSE BigCmpFrom(a, b, Len(a))

Limb(a, i) == IF i <= Len(a) THEN a[i] ELSE 0

RECURSIVE BigAddFrom(_, _, _, _)
BigAddFrom(a, b, i, carry) ==
    IF i > Len(a) /\ i > Len(b)
    THEN (IF carry = 0 THEN <<>> ELSE <<carry>>)
    ELSE LET s == Limb(a, i) + Limb(b, i) + carry
         IN  <<s % Base>> \o BigAddFrom(a, b, i + 1, s \div Base)

BigAdd(a, b) == BigAddFrom(a, b, 1, 0)

RECURSIVE BigSubFrom(_, _, _, _)
BigSubFrom(a, b, i, borrow) ==
    IF i > Len(a) THEN <<>>
    ELSE LET s == a[i] - Limb(b, i) - borrow
         IN  IF s < 0 THEN <<s + Base>> \o BigSubFrom(a, b, i + 1, 1)
             ELSE <<s>> \o BigSubFrom(a, b, i + 1, 0)

\* a - b, for a >= b
BigSub(a, b) == BigNorm(BigSubFrom(a, b, 1, 0))

RECURSIVE BigMulSmallFrom(_, _, _, _)
BigMulSmallFrom(a, s, i, carry) ==
    IF i > Len(a) THEN (IF carry = 0 THEN <<>> ELSE <<carry>>)
    ELSE LET p == a[i] * s + carry
         IN  <<p % Base>> \o BigMulSmallFrom(a, s, i + 1, p \div Base)

\* a * s, for 0 <= s <= Base
BigMulSmall(a, s) == IF s = 0 THEN <<>> ELSE BigMulSmallFrom(a, s, 1, 0)

RECURSIVE Zeros(_)
Zeros(n) == IF n = 0 THEN <<>> ELSE <<0>> \o Zeros(n - 1)

RECURSIVE BigMulFrom(_, _, _)
BigMulFrom(a, b, i) ==
    IF i > Len(b) THEN <<>>
    ELSE BigAdd(BigNorm(Zeros(i - 1) \o BigMulSmall(a, b[i])), BigMulFrom(a, b, i + 1))

BigMul(a, b) == IF a = <<>> \/ b = <<>> THEN <<>> ELSE BigMulFrom(a, b, 1)

\* a * 2^n
BigShl(a, n) ==
    IF a = <<>> THEN <<>>
    ELSE Zeros(n \div LimbBits) \o BigMulSmall(a, 2^(n % LimbBits))

\* floor(a / 2^n): limb i of the result is made of limbs i + q and i + q + 1
RECURSIVE BigShrFrom(_, _, _, _)
BigShrFrom(a, q, r, i) ==
    IF i + q > Len(a) THEN <<>>
    ELSE <<(a[i + q] \div 2^r) + (Limb(a, i + q + 1) % 2^r) * 2^(LimbBits - r)>>
         \o BigShrFrom(a, q, r, i + 1)

BigShr(a, n) == BigNorm(BigShrFrom(a, n \div LimbBits, n % LimbBits, 1))

BigBitLen(a) == IF a = <<>> THEN 0 ELSE LimbBits * (Len(a) - 1) + NatBitLen(a[Len(a)])

BigBit(a, i) == (Limb(a, (i \div LimbBits) + 1) \div 2^(i % LimbBits)) % 2

BigIsOdd(a) == BigBit(a, 0) = 1

\* a mod 2^n, as an integer, for n < LimbBits
BigLow(a, n) == Limb(a, 1) % 2^n

\* 2 a + bit
BigDouble(a, bit) ==
    IF a = <<>> THEN (IF bit = 0 THEN <<>> ELSE <<bit>>)
    ELSE BigMulSmallFrom(a, 2, 1, bit)

\* one step of the long division: r2 is the remainder with the next bit of n
RECURSIVE BigDivModFrom(_, _, _, _, _)
BigDivModStep(n, d, i, q, r2) ==
    IF BigCmp(r2, d) >= 0
    THEN BigDivModFrom(n, d, i - 1, BigDouble(q, 1), BigSub(r2, d))
    ELSE BigDivModFrom(n, d, i - 1, BigDouble(q, 0), r2)

\* (the test on q has TLC evaluate the quotient as it goes, not as one deeply
\* nested expression at the end)
BigDivModFrom(n, d, i, q, r) ==
    IF i < 0 \/ Len(q) < 0 THEN <<q, r>>
    ELSE BigDivModStep(n, d, i, q, BigDouble(r, BigBit(n, i)))

\* <<floor(n / d), n mod d>>, for d > 0.  The leading bits of n that cannot
\* yet reach d are loaded into the remainder at once.
BigDivMod(n, d) ==
    LET bn == BigBitLen(n)
        bd == BigBitLen(d)
    IN  IF bn < bd THEN <<<<>>, n>>
        ELSE BigDivModFrom(n, d, bn - bd, <<>>, BigShr(n, bn - bd + 1))

\* ------------------------------------------------------------------ f64
MantBits == 53

NaN == [kind |-> "nan"]
Inf(neg) == [kind |-> "inf", neg |-> neg]
Zero == [kind |-> "zero"]
Num(neg, m, e) == [kind |-> "num", neg |-> neg, m |-> m, e |-> e]

\* <<floor(n * 2^s / d), whether a remainder is left>>, for d > 0.  A power of
\* two d = 2^t needs no long division.
QuotientPow2(n, t, s) ==
    IF s >= t THEN <<BigShl(n, s - t), FALSE>>
    ELSE <<BigShr(n, t - s), BigShl(BigShr(n, t - s), t - s) # n>>

QuotientLong(qr) == <<qr[1], ~BigIsZero(qr[2])>>

ScaledQuotient(n, d, s) ==
    IF d = BigShl(<<1>>, BigBitLen(d) - 1) THEN QuotientPow2(n, BigBitLen(d) - 1, s)
    ELSE IF s >= 0 THEN QuotientLong(BigDivMod(BigShl(n, s), d))
    ELSE QuotientLong(BigDivMod(n, BigShl(d, -s)))

\* m1 * 2^e, with m1 of MantBits bits, or of one more after a carry
Renormalise(neg, m1, e) ==
    IF BigBitLen(m1) > MantBits THEN Num(neg, BigShr(m1, 1), e + 1)
    ELSE Num(neg, m1, e)

\* round to nearest, ties to even: m0 is the significand, low the bits dropped
\* from the quotient, half their midpoint, sticky whether a remainder is left
RoundNearestEven(neg, m0, low, half, sticky, e) ==
    IF \/ low > half
       \/ low = half /\ sticky
       \/ low = half /\ ~sticky /\ BigIsOdd(m0)
    THEN Renormalise(neg, BigAdd(m0, <<1>>), e)
    ELSE Renormalise(neg, m0, e)

RoundDropping(neg, q, sticky, drop, s) ==
    RoundNearestEven(neg, BigShr(q, drop), BigLow(q, drop), 2^(drop - 1), sticky,
                     drop - s)

RoundQuotient(neg, qs, s) ==
    RoundDropping(neg, qs[1], qs[2], BigBitLen(qs[1]) - MantBits, s)

RoundScaled(neg, n, d, s) == RoundQuotient(neg, ScaledQuotient(n, d, s), s)

\* The f64 nearest to n / d (ties to even), for naturals n > 0 and d > 0: the
\* quotient is taken with one or two bits beyond the significand, which with
\* the remainder decide the rounding.
RoundRat(neg, n, d) ==
    RoundScaled(neg, n, d, (MantBits + 1) - (BigBitLen(n) - BigBitLen(d)))

F64FromBig(n) == IF BigIsZero(n) THEN Zero ELSE RoundRat(FALSE, n, <<1>>)

\* The f64 of the integer literal i
F64(i) ==
    IF i = 0 THEN Zero
    ELSE IF i < 0 THEN RoundRat(TRUE, BigFromNat(-i), <<1>>)
    ELSE RoundRat(FALSE, BigFromNat(i), <<1>>)

IsNeg(x) == x.kind \in {"num", "inf"} /\ x.neg

\* the exact value of a finite non-zero f64 as numerator and denominator
NumOf(x) == IF x.e >= 0 THEN BigShl(x.m, x.e) ELSE x.m
DenOf(x) == IF x.e >= 0 THEN <<1>> ELSE BigShl(<<1>>, -x.e)

F64Neg(x) ==
    CASE x.kind = "num" -> Num(~x.neg, x.m, x.e)
      [] x.kind = "inf" -> Inf(~x.neg)
      [] OTHER -> x

F64Mul(a, b) ==
    CASE a.kind = "nan" \/ b.kind = "nan" -> NaN
      [] a.kind = "inf" \/ b.kind = "inf" ->
            IF a.kind = "zero" \/ b.kind = "zero" THEN NaN
            ELSE Inf(IsNeg(a) # IsNeg(b))
      [] a.kind = "zero" \/ b.kind = "zero" -> Zero
      [] OTHER -> RoundRat(a.neg # b.neg, BigMul(NumOf(a), NumOf(b)),
                           BigMul(DenOf(a), DenOf(b)))

F64Div(a, b) ==
    CASE a.kind = "nan" \/ b.kind = "nan" -> NaN
      [] a.kind = "inf" -> IF b.kind = "inf" THEN NaN ELSE Inf(IsNeg(a) # IsNeg(b))
      [] b.kind = "inf" -> Zero
      [] b.kind = "zero" -> IF a.kind = "zero" THEN NaN ELSE Inf(IsNeg(a))
      [] a.kind = "zero" -> Zero
      [] OTHER -> RoundRat(a.neg # b.neg, BigMul(NumOf(a), DenOf(b)),
                           BigMul(DenOf(a), NumOf(b)))

\* na / d + nb / d with the signs given
AddAligned(nega, na, negb, nb, d) ==
    IF nega = negb THEN RoundRat(nega, BigAdd(na, nb), d)
    ELSE IF BigCmp(na, nb) = 0 THEN Zero
    ELSE IF BigCmp(na, nb) > 0 THEN RoundRat(nega, BigSub(na, nb), d)
    ELSE RoundRat(negb, BigSub(nb, na), d)

F64Add(a, b) ==
    CASE a.kind = "nan" \/ b.kind = "nan" -> NaN
      [] a.kind = "inf" -> IF b.kind = "inf" /\ a.neg # b.neg THEN NaN ELSE a
      [] b.kind = "inf" -> b
      [] a.kind = "zero" -> b
      [] b.kind = "zero" -> a
      [] OTHER -> AddAligned(a.neg, BigMul(NumOf(a), DenOf(b)),
                             b.neg, BigMul(NumOf(b), DenOf(a)),
                             BigMul(DenOf(a), DenOf(b)))

F64Sub(a, b) == F64Add(a, F64Neg(b))

IsPositive(d) == d.kind \in {"num", "inf"} /\ ~d.neg

\* a < b as f64 compares (false when either is NaN)
F64Lt(a, b) ==
    CASE a.kind = "nan" \/ b.kind = "nan" -> FALSE
      [] a.kind = "inf" /\ b.kind = "inf" -> a.neg /\ ~b.neg
      [] OTHER -> IsPositive(F64Sub(b, a))

F64Le(a, b) == a.kind # "nan" /\ b.kind # "nan" /\ ~F64Lt(b, a)
F64Gt(a, b) == F64Lt(b, a)
F64Ge(a, b) == F64Le(b, a)

F64Abs(x) == IF IsNeg(x) THEN F64Neg(x) ELSE x

\* x.powf(3.0), taken as the correctly rounded cube
Powf3(x) ==
    CASE x.kind = "num" ->
            RoundRat(x.neg, BigMul(NumOf(x), BigMul(NumOf(x), NumOf(x))),
                     BigMul(DenOf(x), BigMul(DenOf(x), DenOf(x))))
      [] OTHER -> x

\* ------------------------------------------------------------------ u64
U64Bits == 64
U64MAX == BigSub(BigShl(<<1>>, U64Bits), <<1>>)

\* `k as f64`
U64ToF64(k) == F64FromBig(k)

\* `x as u64`: the fraction is dropped, NaN and negative values give 0, values
\* beyond the range give u64::MAX
F64ToU64(x) ==
    CASE x.kind = "num" ->
            IF x.neg THEN <<>>
            ELSE LET n == IF x.e >= 0 THEN BigShl(x.m, x.e) ELSE BigShr(x.m, -x.e)
                 IN  IF BigBitLen(n) > U64Bits THEN U64MAX ELSE n
      [] x.kind = "inf" -> IF x.neg THEN <<>> ELSE U64MAX
      [] OTHER -> <<>>

\* a * s in u64 (wrapping), for a small s
U64Mul(a, s) ==
    LET p == BigMulSmall(a, s)
    IN  BigSub(p, BigShl(BigShr(p, U64Bits), U64Bits))

\* ------------------------------------------------------------------ should!
\* The crate's should! macro guards a constructor: when the requirement does
\* not hold the construction fails with InvalidParameter.
InvalidParameter == [type |-> "InvalidParameter"]
NoInstance == [type |-> "none"]

Should(requirement) == requirement

\* ------------------------------------------------------------------ Gamma
\* The Gamma engine the wrappers own.  Values it computes with functions this
\* model does not evaluate (incomplete gamma, log-gamma, digamma, square
\* root) are carried as terms naming the function and its arguments: equal
\* terms are equal values.
Term(fn, g, x) == [kind |-> "term", fn |-> fn, k |-> g.k, theta |-> g.theta, x |-> x]

Gamma_new(k, theta) ==
    IF Should(F64Gt(k, Zero) /\ F64Gt(theta, Zero))
    THEN [type |-> "Gamma", k |-> k, theta |-> theta]
    ELSE InvalidParameter

Gamma_k(g) == g.k
Gamma_theta(g) == g.theta

Gamma_density(g, x) == IF F64Gt(x, Zero) THEN Term("density", g, x) ELSE Zero
Gamma_distribution(g, x) == IF F64Gt(x, Zero) THEN Term("distribution", g, x) ELSE Zero
Gamma_entropy(g) == Term("entropy", g, Zero)
Gamma_skewness(g) == Term("skewness", g, Zero)
Gamma_mean(g) == F64Mul(g.k, g.theta)
Gamma_variance(g) == F64Mul(F64Mul(g.k, g.theta), g.theta)

\* The wrappers' tests fix the convention: Chisquared::new(3), of shape 1.5,
\* has kurtosis 4.0 and Erlang::new(3, 0.5), of shape 3, has kurtosis 2.0.
Gamma_kurtosis(g) == F64Div(F64(6), g.k)

Gamma_modes(g) ==
    IF F64Ge(g.k, F64(1)) THEN <<F64Mul(F64Sub(g.k, F64(1)), g.theta)>> ELSE <<>>

\* -- sampling.  A shape below 1 is boosted: a variate of shape k + 1 is drawn
\* and multiplied by a uniform draw raised to 1/k.  A shape of at least 1 uses
\* the rejection loop: draw a normal x, v = (1 + x / sqrt(9k - 3))^3, redraw
\* if v <= 0, draw a uniform u and accept when ln(u) is below the bound.
\*
\* A normal draw is an integer of NormalDraws.  A uniform draw of [0, 1) is
\* one of three classes: "zero" (u = 0), "low" (so small that every kept x of
\* NormalDraws is accepted) and "high" (so close to 1 that only x = 0, whose
\* bound is 0 > ln(u), is accepted).
\* The random source is a generator with SrcStates states, each read moving it
\* to the next.
SrcStates == 4
Advance(source) == (source + 1) % SrcStates

NormalFar == 8
NormalDraws == {-NormalFar, 0, 1}
UniformDraws == {"zero", "low", "high"}

\* the frame of a call: d9 is 9k - 3 for the shape sampled, far whether the
\* negative draw lies at or below -sqrt(9k - 3), x the normal draw kept
SampleFrame(g, boost, d9) ==
    [g |-> g, boost |-> boost, d9 |-> d9,
     far |-> F64Ge(F64(NormalFar * NormalFar), d9), x |-> 0]

SampleShape(g, boost) == IF boost THEN F64Add(g.k, F64(1)) ELSE g.k

BeginSample(g, boost) ==
    SampleFrame(g, boost, F64Sub(F64Mul(F64(9), SampleShape(g, boost)), F64(3)))

Gamma_sample(g, source) ==
    [frame |-> BeginSample(g, F64Lt(g.k, F64(1))), source |-> source]

\* v > 0, that is x > -sqrt(9k - 3)
VPositive(frame, x) == ~(x < 0 /\ frame.far)

Accepts(frame, u) == u \in {"zero", "low"} \/ frame.x = 0

\* the variate returned for the kept x and, when boosted, the uniform draw u
Variate(frame, u) == [kind |-> "sample", g |-> frame.g, x |-> frame.x, boost |-> u]

\* the sign of a variate: (9k - 3) * v * theta, times u^(1/k) when boosted
VariateSign(v) ==
    IF v.boost = "zero" THEN 0
    ELSE IF VPositive(Gamma_sample(v.g, 0).frame, v.x) THEN 1 ELSE -1

\* ------------------------------------------------------------------ Chisquared

\* the shape left at k, not halved
Chisquared_new_unhalved(k) ==
    IF ~Should(~BigIsZero(k)) THEN InvalidParameter
    ELSE LET gamma == Gamma_new(U64ToF64(k), F64(2))
         IN  IF gamma = InvalidParameter THEN InvalidParameter
             ELSE [type |-> "Chisquared", gamma |-> gamma]

Chisquared_new(k) ==
    IF ~Should(~BigIsZero(k)) THEN InvalidParameter
    ELSE LET gamma == Gamma_new(F64Div(U64ToF64(k), F64(2)), F64(2))
         IN  IF gamma = InvalidParameter THEN InvalidParameter
             ELSE [type |-> "Chisquared", gamma |-> gamma]

Chisquared_k(self) == U64Mul(F64ToU64(Gamma_k(self.gamma)), 2)

Chisquared_density(self, x) == Gamma_density(self.gamma, x)

\* the density returned for the distribution
Chisquared_distribution_density(self, x) == Gamma_density(self.gamma, x)

Chisquared_distribution(self, x) == Gamma_distribution(self.gamma, x)
Chisquared_entropy(self) == Gamma_entropy(self.gamma)

\* 3 added to the owned Gamma's kurtosis
Chisquared_kurtosis_raw(self) == F64Add(F64(3), Gamma_kurtosis(self.gamma))

Chisquared_kurtosis(self) == Gamma_kurtosis(self.gamma)
Chisquared_mean(self) == Gamma_mean(self.gamma)

\* k * (1 - 2 / (9 k))^3
WilsonHilferty(k) ==
    F64Mul(k, Powf3(F64Sub(F64(1), F64Div(F64(2), F64Mul(F64(9), k)))))

Chisquared_median(self) == WilsonHilferty(U64ToF64(Chisquared_k(self)))

Chisquared_modes(self) == Gamma_modes(self.gamma)

\* a value read from the source before the call is passed on
Chisquared_sample_extra_read(self, source) == Gamma_sample(self.gamma, Advance(source))

Chisquared_sample(self, source) == Gamma_sample(self.gamma, source)
Chisquared_skewness(self) == Gamma_skewness(self.gamma)
Chisquared_variance(self) == Gamma_variance(self.gamma)

\* ------------------------------------------------------------------ Erlang

\* only the shape is required to be positive
Erlang_new_rate_unchecked(k, l) ==
    IF ~Should(~BigIsZero(k)) THEN InvalidParameter
    ELSE LET gamma == Gamma_new(U64ToF64(k), F64Div(F64(1), l))
         IN  IF gamma = InvalidParameter THEN InvalidParameter
             ELSE [type |-> "Erlang", gamma |-> gamma]

Erlang_new(k, l) ==
    IF ~Should(~BigIsZero(k) /\ F64Gt(l, Zero)) THEN InvalidParameter
    ELSE LET gamma == Gamma_new(U64ToF64(k), F64Div(F64(1), l))
         IN  IF gamma = InvalidParameter THEN InvalidParameter
             ELSE [type |-> "Erlang", gamma |-> gamma]

Erlang_k(self) == F64ToU64(Gamma_k(self.gamma))

\* the scale returned for the rate
Erlang_l_scale(self) == Gamma_theta(self.gamma)

Erlang_l(self) == F64Div(F64(1), Gamma_theta(self.gamma))

Erlang_density(self, x) == Gamma_density(self.gamma, x)
Erlang_distribution(self, x) == Gamma_distribution(self.gamma, x)
Erlang_entropy(self) == Gamma_entropy(self.gamma)
Erlang_kurtosis(self) == Gamma_kurtosis(self.gamma)
Erlang_mean(self) == Gamma_mean(self.gamma)

\* the mean returned as the mode
Erlang_modes_mean(self) == <<Gamma_mean(self.gamma)>>

Erlang_modes(self) == Gamma_modes(self.gamma)
Erlang_sample(self, source) == Gamma_sample(self.gamma, source)
Erlang_skewness(self) == Gamma_skewness(self.gamma)
Erlang_variance(self) == Gamma_variance(self.gamma)

\* ------------------------------------------------------------------ tests
\* The values the tests assert (within 1e-14) for Chisquared::new(4) and for
\* Erlang::new(2, 0.5), both a Gamma of shape 2 and scale 2.  A row is
\* <<2 x, the decimal literal in units of 1e-17 as <<hi, lo>>, hi * 10^9 + lo>>.
DensityRows ==
    << <<-2, <<0, 0>>>>, <<0, <<0, 0>>>>, <<1, <<9735009, 788392561>>>>,
       <<2, <<15163266, 492815840>>>>, <<3, <<17713745, 727788050>>>>, <<4, <<18393972, 58572120>>>>,
       <<5, <<17906549, 803761880>>>>, <<6, <<16734762, 11132240>>>>, <<7, <<15205220, 51913950>>>>,
       <<8, <<13533528, 323661270>>>>, <<9, <<11857412, 763209740>>>>, <<10, <<10260624, 827987350>>>>,
       <<11, <<8790080, 915922291>>>>, <<12, <<7468060, 255179591>>>>, <<13, <<6300808, 772654827>>>>,
       <<14, <<5284542, 98905738>>>>, <<15, <<4409577, 348001708>>>>, <<16, <<3663127, 777746836>>>>,
       <<17, <<3031149, 705662342>>>>, <<18, <<2499524, 221104519>>>> >>

DistributionRows ==
    << <<-2, <<0, 0>>>>, <<0, <<0, 0>>>>, <<2, <<9020401, 43104986>>>>,
       <<4, <<26424111, 765711540>>>>, <<6, <<44217459, 962892540>>>>, <<8, <<59399415, 29016190>>>>,
       <<10, <<71270250, 481635420>>>>, <<12, <<80085172, 652854420>>>>, <<14, <<86411177, 459956670>>>>,
       <<16, <<90842180, 555632910>>>>, <<18, <<93890051, 903966730>>>>, <<20, <<95957231, 800548720>>>>,
       <<22, <<97343598, 564998360>>>>, <<24, <<98264873, 476333550>>>>, <<26, <<98872420, 605266820>>>>,
       <<28, <<99270494, 427556390>>>>, <<30, <<99529878, 285374340>>>>, <<32, <<99698083, 634887740>>>>,
       <<34, <<99806705, 49439890>>>>, <<36, <<99876590, 195913320>>>>, <<38, <<99921405, 578617910>>>> >>

RowOf(rows, h) == CHOOSE r \in {rows[i] : i \in 1..Len(rows)} : r[1] = h
HasRow(rows, h) == \E i \in 1..Len(rows) : rows[i][1] = h

DecLeq(a, b) == a[1] < b[1] \/ (a[1] = b[1] /\ a[2] <= b[2])
DecOne == <<100000000, 0>>

TestKurtosisChisquared == [k |-> 3, expect |-> 4]
TestKurtosisErlang == [k |-> 3, expect |-> 2]
TestModesChisquared == [k |-> 5, expect |-> 3]
TestModesErlang == [k |-> 5, expect |-> 8]

\* ------------------------------------------------------------------ inputs
MaxK == 5
BigK == BigAdd(BigShl(<<1>>, MantBits), <<1>>)
Ks == {BigFromNat(k) : k \in 0..MaxK} \cup {BigK}

Half == F64Div(F64(1), F64(2))
NRates == 6
RateList == <<F64(-1), Zero, Half, F64(5), F64(49), Inf(FALSE), F64(2), F64(10), F64(3)>>
Rates == {RateList[i] : i \in 1..NRates}

\* arguments of density and distribution, in halves
MaxH == 6
Hs == -2..MaxH
X(h) == F64Div(F64(h), F64(2))

MaxIter == 2

ChisquaredArgs == {[type |-> "Chisquared", k |-> k, l |-> Zero] : k \in Ks}
ErlangArgs == {[type |-> "Erlang", k |-> k, l |-> l] : k \in Ks, l \in Rates}
NoArgs == [type |-> "none", k |-> <<>>, l |-> Zero]

\* ------------------------------------------------------------------ state
VARIABLES
    args,   \* the arguments given to the constructor
    inst,   \* the instance constructed, NoInstance before and on failure
    err,    \* "none", or the failure of the construction
    val,    \* what each operation without argument returns on inst
    ret,    \* the last call made on inst and what it returned
    src,    \* the state of the random source
    pc,     \* "idle", or where a running sample call stands
    call    \* the frame of the running sample call

vars == <<args, inst, err, val, ret, src, pc, call>>

NoRet == [op |-> "none", h |-> 0, value |-> Zero, start |-> 0, n |-> 0]
Ret(op, h, value) == [op |-> op, h |-> h, value |-> value, start |-> 0, n |-> 0]
NoCall == [frame |-> [boost |-> FALSE], start |-> 0, n |-> 0, iter |-> 0]

IsChisquared == inst.type = "Chisquared"
IsErlang == inst.type = "Erlang"
Constructed == IsChisquared \/ IsErlang

\* The operations are pure functions of the instance, which never changes: the
\* value of each is computed once, when the instance is constructed.
Values(self) ==
    IF self = InvalidParameter THEN <<>>
    ELSE IF self.type = "Chisquared"
    THEN [k |-> Chisquared_k(self),
          median |-> Chisquared_median(self),
          entropy |-> Chisquared_entropy(self),
          kurtosis |-> Chisquared_kurtosis(self),
          mean |-> Chisquared_mean(self),
          modes |-> Chisquared_modes(self),
          skewness |-> Chisquared_skewness(self),
          variance |-> Chisquared_variance(self)]
    ELSE [k |-> Erlang_k(self),
          l |-> Erlang_l(self),
          entropy |-> Erlang_entropy(self),
          kurtosis |-> Erlang_kurtosis(self),
          mean |-> Erlang_mean(self),
          modes |-> Erlang_modes(self),
          skewness |-> Erlang_skewness(self),
          variance |-> Erlang_variance(self)]

Init ==
    /\ args = NoArgs
    /\ inst = NoInstance
    /\ err = "none"
    /\ val = <<>>
    /\ ret = NoRet
    /\ src \in 0..(SrcStates - 1)
    /\ pc = "idle"
    /\ call = NoCall

Construct(a, made) ==
    /\ args.type = "none"
    /\ args' = a
    /\ inst' = IF made = InvalidParameter THEN NoInstance ELSE made
    /\ err' = IF made = InvalidParameter THEN "InvalidParameter" ELSE "none"
    /\ val' = Values(made)
    /\ UNCHANGED <<ret, src, pc, call>>

NewChisquared == \E a \in ChisquaredArgs : Construct(a, Chisquared_new(a.k))
NewErlang == \E a \in ErlangArgs : Construct(a, Erlang_new(a.k, a.l))

\* -- calls that take no source
Answer(op, h, value) ==
    /\ pc = "idle"
    /\ ret' = Ret(op, h, value)
    /\ UNCHANGED <<args, inst, err, val, src, pc, call>>

K == Constructed /\ Answer("k", 0, val["k"])
L == IsErlang /\ Answer("l", 0, val["l"])
Median == IsChisquared /\ Answer("median", 0, val["median"])
Entropy == Constructed /\ Answer("entropy", 0, val["entropy"])
Kurtosis == Constructed /\ Answer("kurtosis", 0, val["kurtosis"])
Mean == Constructed /\ Answer("mean", 0, val["mean"])
Modes == Constructed /\ Answer("modes", 0, val["modes"])
Skewness == Constructed /\ Answer("skewness", 0, val["skewness"])
Variance == Constructed /\ Answer("variance", 0, val["variance"])

Density ==
    /\ Constructed
    /\ \E h \in Hs :
          Answer("density", h, IF IsChisquared THEN Chisquared_density(inst, X(h))
                               ELSE Erlang_density(inst, X(h)))

Distribution ==
    /\ Constructed
    /\ \E h \in Hs :
          Answer("distribution", h,
                 IF IsChisquared THEN Chisquared_distribution(inst, X(h))
                 ELSE Erlang_distribution(inst, X(h)))

\* -- sample(source)
SampleBegin ==
    /\ Constructed
    /\ pc = "idle"
    /\ LET r == IF IsChisquared THEN Chisquared_sample(inst, src)
                ELSE Erlang_sample(inst, src)
       IN  /\ call' = [frame |-> r.frame, start |-> src, n |-> 0, iter |-> 0]
           /\ src' = r.source
    /\ pc' = "normal"
    /\ ret' = NoRet
    /\ UNCHANGED <<args, inst, err, val>>

Min(a, b) == IF a < b THEN a ELSE b

Redraw ==
    /\ pc' = "normal"
    /\ call' = [call EXCEPT !.n = (@ + 1) % SrcStates, !.iter = Min(@ + 1, MaxIter)]
    /\ src' = Advance(src)
    /\ UNCHANGED <<args, inst, err, val, ret>>

Return(u) ==
    /\ pc' = "idle"
    /\ ret' = [op |-> "sample", h |-> 0, value |-> Variate(call.frame, u),
               start |-> call.start, n |-> (call.n + 1) % SrcStates]
    /\ call' = NoCall
    /\ src' = Advance(src)
    /\ UNCHANGED <<args, inst, err, val>>

\* a normal draw with v <= 0: draw again
NormalRedraw ==
    /\ pc = "normal"
    /\ \E d \in NormalDraws : ~VPositive(call.frame, d)
    /\ Redraw

\* a normal draw with v > 0 is kept
NormalKeep ==
    /\ pc = "normal"
    /\ \E d \in NormalDraws :
          /\ VPositive(call.frame, d)
          /\ call' = [call EXCEPT !.frame.x = d, !.n = (@ + 1) % SrcStates]
    /\ pc' = "uniform"
    /\ src' = Advance(src)
    /\ UNCHANGED <<args, inst, err, val, ret>>

\* a uniform draw that fails the acceptance test: back to the normal draw
UniformReject ==
    /\ pc = "uniform"
    /\ \E u \in UniformDraws : ~Accepts(call.frame, u)
    /\ Redraw

\* a uniform draw that passes: the variate is returned, or boosted first
UniformAccept ==
    /\ pc = "uniform"
    /\ \E u \in UniformDraws : Accepts(call.frame, u)
    /\ IF call.frame.boost
       THEN /\ pc' = "boost"
            /\ call' = [call EXCEPT !.n = (@ + 1) % SrcStates]
            /\ src' = Advance(src)
            /\ UNCHANGED <<args, inst, err, val, ret>>
       ELSE Return("none")

\* the uniform draw of the boost
Boost ==
    /\ pc = "boost"
    /\ \E u \in UniformDraws : Return(u)

Next ==
    \/ NewChisquared \/ NewErlang
    \/ K \/ L \/ Median \/ Entropy \/ Kurtosis \/ Mean \/ Modes \/ Skewness \/ Variance
    \/ Density \/ Distribution
    \/ SampleBegin \/ NormalRedraw \/ NormalKeep \/ UniformReject \/ UniformAccept
    \/ Boost

Spec == Init /\ [][Next]_vars

\* The source is fair: a draw that is kept, and one that is accepted, is
\* eventually produced.
FairSpec ==
    /\ Spec
    /\ SF_vars(NormalKeep)
    /\ SF_vars(UniformAccept)
    /\ WF_vars(Boost)

\* ------------------------------------------------------------------ claims
One == BigFromNat(1)

\* k as the f64 it converts to, and whether the conversion is exact
ExactInF64(k) == BigCmp(k, BigShl(<<1>>, MantBits)) <= 0

\* a finite f64 that is a power of two
IsPow2(x) == x.kind = "num" /\ x.m = BigShl(<<1>>, MantBits - 1)

\* the distance of two finite f64 of the same sign is at most one unit in the
\* last place of b
WithinUlp(a, b) ==
    /\ a.kind = "num" /\ b.kind = "num"
    /\ F64Le(F64Abs(F64Sub(a, b)),
             Num(FALSE, BigShl(<<1>>, MantBits - 1), b.e - (MantBits - 1)))

Made == args.type # "none"
Rejected == err = "InvalidParameter" /\ inst = NoInstance /\ DOMAIN val = {}
Yielded == err = "none" /\ inst.type = args.type /\ inst.gamma.type = "Gamma"

\* C1: for every positive integer k, Chisquared::new(k).k() returns the k that
\* was passed to new, for odd k as well as even k.
C1_KRoundTrip == (IsChisquared /\ ret.op = "k") => ret.value = args.k

\* C2, as stated: every call with a non-positive parameter fails with
\* InvalidParameter and yields no instance, and every call with k > 0 (and
\* l > 0) yields an instance.
C2_AsStated ==
    Made => IF ~BigIsZero(args.k) /\ (args.type = "Erlang" => F64Gt(args.l, Zero))
            THEN Yielded
            ELSE Rejected

\* C2, amended: Chisquared::new(0), Erlang::new(0, l) and Erlang::new(k, l)
\* with l <= 0 fail with InvalidParameter and yield no instance; every call
\* with k > 0 (and a finite l > 0) yields an instance holding the parameters
\* given; Erlang::new(k, +inf), whose scale 1 / l is 0, fails as well.
C2_Construction ==
    Made => IF ~BigIsZero(args.k)
               /\ (args.type = "Erlang" => F64Gt(args.l, Zero) /\ args.l.kind = "num")
            THEN /\ Yielded
                 /\ inst.gamma.k = (IF IsChisquared
                                    THEN F64Div(U64ToF64(args.k), F64(2))
                                    ELSE U64ToF64(args.k))
            ELSE Rejected

C2_Witness ==
    /\ args.type = "Erlang" /\ ~BigIsZero(args.k) /\ args.l = Zero
    /\ Rejected

\* C3: for every positive integer k, Chisquared::new(k).median() is the
\* Wilson-Hilferty value k (1 - 2 / (9 k))^3 at the k given at construction,
\* a finite value for every k >= 1.
C3_MedianAtK ==
    (IsChisquared /\ ret.op = "median") =>
        /\ ret.value = WilsonHilferty(U64ToF64(args.k))
        /\ ret.value.kind = "num"

\* the Gamma the claim names for the arguments given
RefGamma ==
    IF args.type = "Chisquared"
    THEN Gamma_new(F64Div(U64ToF64(args.k), F64(2)), F64(2))
    ELSE Gamma_new(U64ToF64(args.k), F64Div(F64(1), args.l))

Delegated ==
    {"density", "distribution", "mean", "variance", "skewness", "kurtosis",
     "entropy", "modes"}

GammaAnswer(g, r) ==
    CASE r.op = "density" -> Gamma_density(g, X(r.h))
      [] r.op = "distribution" -> Gamma_distribution(g, X(r.h))
      [] r.op = "mean" -> Gamma_mean(g)
      [] r.op = "variance" -> Gamma_variance(g)
      [] r.op = "skewness" -> Gamma_skewness(g)
      [] r.op = "kurtosis" -> Gamma_kurtosis(g)
      [] r.op = "entropy" -> Gamma_entropy(g)
      [] r.op = "modes" -> Gamma_modes(g)

\* C4: Chisquared::new(n) answers as Gamma::new(n / 2, 2) and Erlang::new(k, l)
\* as Gamma::new(k, 1 / l) for density, distribution, mean, variance, skewness,
\* kurtosis, entropy and modes, and for sample from a source in the same
\* state: the call starts the Gamma's sampling on the source as given, and
\* returns the Gamma's variate with the source where the Gamma's draws left it.
C4_Delegation ==
    /\ (Constructed /\ ret.op \in Delegated) => ret.value = GammaAnswer(RefGamma, ret)
    /\ (pc = "normal" /\ call.iter = 0) =>
          /\ call.frame = Gamma_sample(RefGamma, call.start).frame
          /\ src = Gamma_sample(RefGamma, call.start).source
    /\ (pc # "idle") => call.frame.g = RefGamma
    /\ ret.op = "sample" =>
          /\ ret.value.g = RefGamma
          /\ src = (ret.start + ret.n) % SrcStates

C4_Witness ==
    /\ IsChisquared /\ args.k = BigFromNat(3)
    /\ ret.op = "mean" /\ ret.value = F64(3)

\* C5, as stated: Erlang::new(k, l).k() returns k and Erlang::new(k, l).l()
\* returns l.
C5_AsStated ==
    /\ (IsErlang /\ ret.op = "k") => ret.value = args.k
    /\ (IsErlang /\ ret.op = "l") => ret.value = args.l

\* C5, amended: k() returns k for every k up to 2^53; l() returns
\* 1 / (1 / l), each division rounded to f64, which is l when l is a power of
\* two and is within one unit in the last place of l otherwise.
C5_RoundTrip ==
    /\ (IsErlang /\ ret.op = "k" /\ ExactInF64(args.k)) => ret.value = args.k
    /\ (IsErlang /\ ret.op = "l") =>
          /\ ret.value = F64Div(F64(1), F64Div(F64(1), args.l))
          /\ IsPow2(args.l) => ret.value = args.l
          /\ WithinUlp(ret.value, args.l)

C5_Witness ==
    /\ IsErlang /\ args.l = F64(49)
    /\ ret.op = "l" /\ ret.value # args.l

\* C6, as stated: Chisquared::new(n).kurtosis() is 3 + 12 / n and
\* Erlang::new(k, l).kurtosis() is 3 + 6 / k.
C6_AsStated ==
    /\ (IsChisquared /\ ret.op = "kurtosis") =>
          ret.value = F64Add(F64(3), F64Div(F64(12), U64ToF64(args.k)))
    /\ (IsErlang /\ ret.op = "kurtosis") =>
          ret.value = F64Add(F64(3), F64Div(F64(6), U64ToF64(args.k)))

\* C6, amended: kurtosis is the excess kurtosis 6 / k of the owned Gamma's
\* shape k: Chisquared::new(n).kurtosis() is 12 / n, Erlang::new(k, l).kurtosis()
\* is 6 / k, and the values the wrappers' kurtosis tests assert, 4.0 for
\* Chisquared::new(3) and 2.0 for Erlang::new(3, 0.5), are these.
C6_Kurtosis ==
    /\ (IsChisquared /\ ret.op = "kurtosis") =>
          /\ ret.value = F64Div(F64(12), U64ToF64(args.k))
          /\ args.k = BigFromNat(TestKurtosisChisquared.k) =>
                ret.value = F64(TestKurtosisChisquared.expect)
    /\ (IsErlang /\ ret.op = "kurtosis") =>
          /\ ret.value = F64Div(F64(6), U64ToF64(args.k))
          /\ args.k = BigFromNat(TestKurtosisErlang.k) =>
                ret.value = F64(TestKurtosisErlang.expect)

C6_Witness ==
    /\ IsChisquared /\ args.k = BigFromNat(TestKurtosisChisquared.k)
    /\ ret.op = "kurtosis" /\ ret.value = F64(4)

\* C7, as stated: Chisquared::new(n).modes() is [n - 2] for n >= 2 and empty
\* for n = 1; Erlang::new(k, l).modes() is [(k - 1) / l].
C7_AsStated ==
    /\ (IsChisquared /\ ret.op = "modes") =>
          ret.value = (IF args.k = One THEN <<>>
                       ELSE <<F64Sub(U64ToF64(args.k), F64(2))>>)
    /\ (IsErlang /\ ret.op = "modes") =>
          ret.value = <<F64Div(F64Sub(U64ToF64(args.k), F64(1)), args.l)>>

\* C7, amended: Chisquared::new(n).modes() is [n - 2] for n >= 2 and empty for
\* n = 1; Erlang::new(k, l).modes() is the one mode (k - 1) * (1 / l), the
\* reciprocal and the product each rounded to f64, which is (k - 1) / l when
\* l is a power of two; the tests' [3.0] for Chisquared::new(5) and [8.0] for
\* Erlang::new(5, 0.5) are these.
C7_Modes ==
    /\ (IsChisquared /\ ret.op = "modes") =>
          /\ ret.value = (IF args.k = One THEN <<>>
                          ELSE <<F64Sub(U64ToF64(args.k), F64(2))>>)
          /\ args.k = BigFromNat(TestModesChisquared.k) =>
                ret.value = <<F64(TestModesChisquared.expect)>>
    /\ (IsErlang /\ ret.op = "modes") =>
          /\ ret.value = <<F64Mul(F64Sub(U64ToF64(args.k), F64(1)),
                                  F64Div(F64(1), args.l))>>
          /\ IsPow2(args.l) =>
                ret.value = <<F64Div(F64Sub(U64ToF64(args.k), F64(1)), args.l)>>
          /\ (args.k = BigFromNat(TestModesErlang.k) /\ args.l = Half) =>
                ret.value = <<F64(TestModesErlang.expect)>>

C7_Witness ==
    /\ IsErlang /\ args.k = BigFromNat(4) /\ args.l = F64(5)
    /\ ret.op = "modes"
    /\ ret.value # <<F64Div(F64(3), F64(5))>>

\* the instance of the density and distribution tests: shape 2 and scale 2
TestGamma == Gamma_new(F64(2), F64(2))

DistributionOf(self, x) ==
    IF self.type = "Chisquared" THEN Chisquared_distribution(self, x)
    ELSE Erlang_distribution(self, x)

\* the decimal the tests assert for a value returned at x = h / 2
Asserted(v, h) ==
    CASE v = Zero -> <<0, 0>>
      [] v.kind = "term" /\ v.fn = "density" -> RowOf(DensityRows, h)[2]
      [] v.kind = "term" /\ v.fn = "distribution" -> RowOf(DistributionRows, h)[2]

C9_Frame ==
    [][ /\ Made => (args' = args /\ inst' = inst /\ val' = val /\ err' = err)
        /\ (pc = "idle" /\ pc' = "idle") => src' = src
        /\ (pc = "idle" /\ pc' # "idle") =>
              (src' = src /\ call'.start = src /\ call'.n = 0)
        /\ (pc # "idle") =>
              /\ src' = Advance(src)
              /\ pc' # "idle" =>
                    (call'.n = (call.n + 1) % SrcStates /\ call'.start = call.start)
              /\ pc' = "idle" =>
                    /\ ret'.op = "sample"
                    /\ ret'.start = call.start
                    /\ ret'.n = (call.n + 1) % SrcStates
                    /\ src' = (ret'.start + ret'.n) % SrcStates
        /\ pc' = "idle" => call' = NoCall
      ]_vars

C9_Witness ==
    /\ IsErlang /\ ret.op = "sample" /\ ret.n = 3
    /\ src = (ret.start + 3) % SrcStates

\* C10, as stated: the value a sample call returns is strictly positive.
C10_AsStated == ret.op = "sample" => VariateSign(ret.value) = 1

\* C10, amended: under a fair source every sample call returns; the loop has
\* no cap (a rejection is possible however many went before) and no way out
\* but the return of a value; the value is strictly positive when the shape is
\* at least 1 (every Erlang, Chisquared::new(n) for n >= 2), and
\* Chisquared::new(1), of shape 1/2 and so boosted, returns 0 when the uniform
\* draw of its boost is 0 and a positive value otherwise.
C10_Sample ==
    /\ (pc # "idle") ~> (pc = "idle")
    /\ [](ret.op = "sample" =>
            /\ VariateSign(ret.value) >= 0
            /\ VariateSign(ret.value) = 0 <=>
                  (IsChisquared /\ args.k = One /\ ret.value.boost = "zero")
            /\ (IsChisquared /\ args.k = One) => ret.value.boost \in UniformDraws)
    /\ []((pc = "uniform" /\ call.frame.x # 0) => ENABLED UniformReject)
    /\ [][(pc # "idle") => (err' = "none" /\ (pc' # "idle" \/ ret'.op = "sample"))]_vars

C10_Witness ==
    /\ IsChisquared /\ args.k = One
    /\ ret.op = "sample" /\ ret.value.boost = "zero"
    /\ VariateSign(ret.value) = 0
====
